---- MODULE Spec2Model ----
(***************************************************************************)
(* Model of statediff.Service (src/statediff/service.go): the dispatch     *)
(* loop, the subscription registry guarded by the embedded sync.Mutex, the *)
(* atomically updated subscribers flag, and the Start/Stop lifecycle.      *)
(*                                                                         *)
(* Threads: one Loop goroutine and NumCallers API goroutines.  A step of   *)
(* the model is one stretch of code between two points where another       *)
(* goroutine can observe or change shared state (an atomic operation on    *)
(* subscribers, Lock, Unlock, one iteration of a range under the lock).    *)
(***************************************************************************)
EXTENDS Integers, Sequences, FiniteSets, TLC

VARIABLES
    Subscriptions,  \* sds.Subscriptions: id -> [PayloadChan, QuitChan]
    subscribers,    \* sds.subscribers (int32 used as a flag)
    mutex,          \* the embedded sync.Mutex: [locked, owner]
    lastBlock,      \* sds.lastBlock
    quitClosed,     \* whether sds.QuitChan has been closed
    panicked,       \* the process died of a runtime panic
    payloadCh,      \* what has been written to each payload channel so far
    loopPC,         \* position of the Loop goroutine
    loopPayload,    \* the payload argument of the running send
    loopTodo,       \* registry entries the running range has not yet produced
    callerPC,       \* position of each API goroutine
    callerArg,      \* arguments of each API goroutine's current call
    callerRet,      \* result of each API goroutine's last returned call
    nEvents,        \* chain events taken from chainEventCh so far
    nCalls,         \* Subscribe and Unsubscribe calls started so far
    last,           \* history: what the loop did with the event taken in the last step
    iter            \* history: what the running/last send or close did

vars == <<Subscriptions, subscribers, mutex, lastBlock, quitClosed,
          panicked, payloadCh, loopPC, loopPayload, loopTodo,
          callerPC, callerArg, callerRet, nEvents, nCalls, last, iter>>

----------------------------------------------------------------------------
(* Bounds *)
NumIds == 2
NumGens == 2
NumCallers == 2
MaxOps == 3

Ids == 1..NumIds
Gens == 1..NumGens
Callers == 1..NumCallers

\* A subscriber's channel: the g-th channel pair created for id.
Chans == Ids \X Gens

----------------------------------------------------------------------------
(* Data *)

\* The nil *types.Block.
NoBlock == [number |-> -1, hash |-> -1, parentHash |-> -1]

\* The block of the n-th chain event. Hashes are opaque and the feed's blocks
\* are distinct, so the n-th block's hash is written n, and genesis is 0.
Block(n, p) == [number |-> n, hash |-> n, parentHash |-> p]

\* The parent hashes the n-th event's block can declare: the block before it,
\* or that block's parent (the event reports a fork).
ParentHashes(n) == {h \in {n - 1, n - 2} : h >= 0}

\* StateDiff: block identity plus the account deltas.
StateDiff(n, h, accts) == [BlockNumber |-> n, BlockHash |-> h, Accounts |-> accts]

\* Account deltas a build can produce.
AccountDeltas == {<<>>, <<1>>}

\* The bytes rlp.EncodeToBytes gives a StateDiff: a list header carrying the
\* payload length, followed by the fields in declaration order.
RlpEncode(diff) ==
    <<2 + Len(diff.Accounts)>> \o <<diff.BlockNumber, diff.BlockHash>> \o diff.Accounts

\* The encoder is a function of the value it is given: failing is the set of
\* StateDiff values it cannot encode during this event.
EncodeToBytes(diff, failing) ==
    IF diff \in failing
    THEN [bytes |-> <<>>, err |-> TRUE]
    ELSE [bytes |-> RlpEncode(diff), err |-> FALSE]

\* getEmptyStateDiffRlpForBlock: encoding of a diff with block identity only.
getEmptyStateDiffRlpForBlock(block, failing) ==
    EncodeToBytes(StateDiff(block.number, block.hash, <<>>), failing)

\* Mutant of isEmptyPayload: the synthetic diff is built without the block hash.
isEmptyPayload_NoHash(payload, block, failing) ==
    LET e == EncodeToBytes(StateDiff(block.number, 0, <<>>), failing)
    IN  IF e.err
        THEN [isEmpty |-> FALSE, err |-> TRUE]
        ELSE [isEmpty |-> payload.StateDiffRlp = e.bytes, err |-> FALSE]

\* isEmptyPayload: (isEmpty, err).
isEmptyPayload(payload, block, failing) ==
    LET e == getEmptyStateDiffRlpForBlock(block, failing)
    IN  IF e.err
        THEN [isEmpty |-> FALSE, err |-> TRUE]
        ELSE [isEmpty |-> payload.StateDiffRlp = e.bytes, err |-> FALSE]

\* sds.StreamBlock, the static configuration: the block and the receipts are
\* streamed with the diff, so processStateDiff runs all of its encodings (with
\* it off, lines 165-175 are skipped and the two optional fields stay empty).
StreamBlock == TRUE

NoPayload == [StateDiffRlp |-> <<>>, BlockRlp |-> <<>>, ReceiptsRlp |-> <<>>]

\* make(map[rpc.ID]Subscription)
EmptyMap == [id \in {} |-> NoPayload]

Subscription(ch) == [PayloadChan |-> ch, QuitChan |-> ch]

Free == [locked |-> FALSE, owner |-> 0]
HeldBy(t) == [locked |-> TRUE, owner |-> t]
\* Owner tag of the Loop goroutine (callers are 1..NumCallers).
LoopThread == 0

\* The arguments of a goroutine that is in no call.
NoArg == <<0, 0>>

NoCount == [id \in Ids |-> 0]
NoLast == [outcome |-> "none", registered |-> FALSE, good |-> FALSE,
           looked |-> FALSE, emptyDiff |-> FALSE, fault |-> "none",
           parent |-> NoBlock]
NoIter == [op |-> "none", start |-> {}, tried |-> NoCount, sent |-> NoCount,
           full |-> {}, signalled |-> {}]

----------------------------------------------------------------------------
Init ==
    /\ Subscriptions = EmptyMap
    /\ subscribers = 0
    /\ mutex = Free
    /\ lastBlock = NoBlock
    /\ quitClosed = FALSE
    /\ panicked = FALSE
    /\ payloadCh = [ch \in Chans |-> <<>>]
    /\ loopPC = "notstarted"
    /\ loopPayload = NoPayload
    /\ loopTodo = {}
    /\ callerPC = [c \in Callers |-> "idle"]
    /\ callerArg = [c \in Callers |-> NoArg]
    /\ callerRet = [c \in Callers |-> "nil"]
    /\ nEvents = 0
    /\ nCalls = 0
    /\ last = NoLast
    /\ iter = NoIter

Registered == DOMAIN Subscriptions

\* delete(sds.Subscriptions, id)
Delete(subs, id) == [i \in (DOMAIN subs) \ {id} |-> subs[i]]

\* atomic.CompareAndSwapInt32: the value of the flag after the operation.
CompareAndSwap(v, old, new) == IF v = old THEN new ELSE v

\* The closing lines of Unsubscribe and send: clear the flag if the registry is empty.
HaltIfEmpty(subs, flag) ==
    IF Cardinality(DOMAIN subs) = 0 THEN CompareAndSwap(flag, 1, 0) ELSE flag

loopVars == <<lastBlock, loopPC, loopPayload, loopTodo, nEvents, iter>>
callerVars == <<callerPC, callerArg, callerRet, nCalls>>
lifeVars == <<quitClosed, panicked>>

\* The step taken is not the loop taking a chain event.
NoEvent == last' = NoLast

----------------------------------------------------------------------------
(* Subscribe *)

\* Lines 211-214: the flag is raised before the lock is taken.
Subscribe_CAS(c, id, g) ==
    /\ ~panicked
    /\ callerPC[c] = "idle"
    /\ nCalls + nEvents < MaxOps
    /\ nCalls' = nCalls + 1
    /\ subscribers' = CompareAndSwap(subscribers, 0, 1)
    /\ callerPC' = [callerPC EXCEPT ![c] = "sub_lock"]
    /\ callerArg' = [callerArg EXCEPT ![c] = <<id, g>>]
    /\ callerRet' = [callerRet EXCEPT ![c] = "nil"]
    /\ NoEvent
    /\ UNCHANGED <<Subscriptions, mutex, payloadCh, loopVars, lifeVars>>

\* Lines 215-220: Lock, insert or overwrite, Unlock, return.
Subscribe_Insert(c) ==
    /\ ~panicked
    /\ callerPC[c] = "sub_lock"
    /\ ~mutex.locked
    /\ Subscriptions' = (callerArg[c][1] :> Subscription(callerArg[c])) @@ Subscriptions
    /\ callerPC' = [callerPC EXCEPT ![c] = "idle"]
    /\ callerArg' = [callerArg EXCEPT ![c] = NoArg]
    /\ NoEvent
    /\ UNCHANGED <<subscribers, mutex, callerRet, nCalls, payloadCh, loopVars, lifeVars>>

----------------------------------------------------------------------------
(* Unsubscribe *)

\* Mutant of Unsubscribe_Lock: the lookup is left out, and delete of an absent
\* id is a no-op.
Unsubscribe_Lock_NoLookup(c, id) ==
    /\ ~panicked
    /\ callerPC[c] = "idle"
    /\ nCalls + nEvents < MaxOps
    /\ nCalls' = nCalls + 1
    /\ ~mutex.locked
    /\ mutex' = HeldBy(c)
    /\ callerArg' = [callerArg EXCEPT ![c] = <<id, 0>>]
    /\ Subscriptions' = Delete(Subscriptions, id)
    /\ callerPC' = [callerPC EXCEPT ![c] = "unsub_cas"]
    /\ callerRet' = [callerRet EXCEPT ![c] = "nil"]
    /\ NoEvent
    /\ UNCHANGED <<subscribers, payloadCh, loopVars, lifeVars>>

\* Lines 225-231: Lock, look the id up; an absent id returns the error of
\* line 229 with the mutex still locked, a present id is deleted.
Unsubscribe_Lock(c, id) ==
    /\ ~panicked
    /\ callerPC[c] = "idle"
    /\ nCalls + nEvents < MaxOps
    /\ nCalls' = nCalls + 1
    /\ ~mutex.locked
    /\ mutex' = HeldBy(c)
    /\ callerArg' = [callerArg EXCEPT ![c] = <<id, 0>>]
    /\ IF id \notin Registered
       THEN /\ callerPC' = [callerPC EXCEPT ![c] = "idle"]
            /\ callerRet' = [callerRet EXCEPT ![c] = "notfound"]
            /\ UNCHANGED Subscriptions
       ELSE /\ Subscriptions' = Delete(Subscriptions, id)
            /\ callerPC' = [callerPC EXCEPT ![c] = "unsub_cas"]
            /\ callerRet' = [callerRet EXCEPT ![c] = "nil"]
    /\ NoEvent
    /\ UNCHANGED <<subscribers, payloadCh, loopVars, lifeVars>>

\* Lines 232-238: clear the flag if the registry is now empty, Unlock, return nil.
Unsubscribe_Unlock(c) ==
    /\ ~panicked
    /\ callerPC[c] = "unsub_cas"
    /\ subscribers' = HaltIfEmpty(Subscriptions, subscribers)
    /\ mutex' = Free
    /\ callerPC' = [callerPC EXCEPT ![c] = "idle"]
    /\ callerArg' = [callerArg EXCEPT ![c] = NoArg]
    /\ NoEvent
    /\ UNCHANGED <<Subscriptions, callerRet, nCalls, payloadCh, loopVars, lifeVars>>

----------------------------------------------------------------------------
(* Start, Stop *)

\* Start: go sds.Loop(chainEventCh).
Start ==
    /\ ~panicked
    /\ loopPC = "notstarted"
    /\ loopPC' = "select"
    /\ NoEvent
    /\ UNCHANGED <<Subscriptions, subscribers, mutex, lastBlock, loopPayload, loopTodo,
                   nEvents, iter, payloadCh, callerVars, lifeVars>>

\* A runtime panic nobody recovers ends the process: every goroutine is gone
\* and so is the service's memory.
Crash ==
    /\ panicked' = TRUE
    /\ Subscriptions' = EmptyMap
    /\ subscribers' = 0
    /\ mutex' = Free
    /\ lastBlock' = NoBlock
    /\ loopPC' = "stopped"
    /\ loopPayload' = NoPayload
    /\ loopTodo' = {}
    /\ callerPC' = [c \in Callers |-> "idle"]
    /\ callerArg' = [c \in Callers |-> NoArg]
    /\ callerRet' = [c \in Callers |-> "nil"]
    /\ payloadCh' = [ch \in Chans |-> <<>>]
    /\ nEvents' = 0
    /\ nCalls' = 0
    /\ iter' = NoIter
    /\ UNCHANGED quitClosed

\* Stop: close(sds.QuitChan); closing a closed channel is a runtime panic.
Stop ==
    /\ ~panicked
    /\ NoEvent
    /\ IF quitClosed
       THEN Crash
       ELSE /\ quitClosed' = TRUE
            /\ UNCHANGED <<Subscriptions, subscribers, mutex, panicked,
                           payloadCh, loopVars, callerVars>>

----------------------------------------------------------------------------
(* Loop: the chain event case *)

\* BlockChain.GetBlockByHash: the block with that hash, or nil.
GetBlockByHash(hash, found) == IF found THEN Block(hash, hash - 1) ELSE NoBlock

\* Mutant of processStateDiff: the diff is built and labelled for the parent
\* block, so the payload is the one of an event already handled.
processStateDiff_Parent(currentBlock, parentBlock, buildOk, accts, failing, auxOk, stream) ==
    LET stateDiff == StateDiff(parentBlock.number, parentBlock.hash, accts)
        enc == EncodeToBytes(stateDiff, failing)
        payload == [StateDiffRlp |-> enc.bytes,
                    BlockRlp |-> IF stream
                                 THEN <<currentBlock.number, currentBlock.hash,
                                        currentBlock.parentHash>>
                                 ELSE <<>>,
                    ReceiptsRlp |-> IF stream THEN <<currentBlock.hash>> ELSE <<>>]
        empty == isEmptyPayload(payload, currentBlock, failing)
    IN  IF ~buildOk \/ enc.err \/ (stream /\ ~auxOk)
        THEN [err |-> TRUE, send |-> FALSE, payload |-> NoPayload]
        ELSE [err |-> FALSE, send |-> ~empty.isEmpty, payload |-> payload]

\* Mutant of processStateDiff: the builder's error is dropped and whatever
\* diff it returned is encoded and sent.
processStateDiff_IgnoreBuildErr(currentBlock, parentBlock, buildOk, accts, failing, auxOk, stream) ==
    LET stateDiff == StateDiff(currentBlock.number, currentBlock.hash, accts)
        enc == EncodeToBytes(stateDiff, failing)
        payload == [StateDiffRlp |-> enc.bytes,
                    BlockRlp |-> IF stream
                                 THEN <<currentBlock.number, currentBlock.hash,
                                        currentBlock.parentHash>>
                                 ELSE <<>>,
                    ReceiptsRlp |-> IF stream THEN <<currentBlock.hash>> ELSE <<>>]
    IN  IF enc.err \/ (stream /\ ~auxOk)
        THEN [err |-> TRUE, send |-> FALSE, payload |-> NoPayload]
        ELSE [err |-> FALSE, send |-> TRUE, payload |-> payload]

\* processStateDiff, lines 153-188. buildOk: BuildStateDiff succeeded, giving a
\* diff for the current block with account deltas accts; auxOk: the block and
\* the receipts encoded.
processStateDiff(currentBlock, parentBlock, buildOk, accts, failing, auxOk, stream) ==
    LET stateDiff == StateDiff(currentBlock.number, currentBlock.hash, accts)
        enc == EncodeToBytes(stateDiff, failing)
        payload == [StateDiffRlp |-> enc.bytes,
                    BlockRlp |-> IF stream
                                 THEN <<currentBlock.number, currentBlock.hash,
                                        currentBlock.parentHash>>
                                 ELSE <<>>,
                    ReceiptsRlp |-> IF stream THEN <<currentBlock.hash>> ELSE <<>>]
        empty == isEmptyPayload(payload, currentBlock, failing)
    IN  IF ~buildOk \/ enc.err \/ (stream /\ ~auxOk)
        THEN [err |-> TRUE, send |-> FALSE, payload |-> NoPayload]
        ELSE [err |-> FALSE, send |-> ~empty.isEmpty, payload |-> payload]

\* Mutant of ParentBlock: the cache is used whenever it is set, whatever its
\* hash.
ParentBlock_AnyCached(cache, currentBlock, found) ==
    IF cache # NoBlock
    THEN [cached |-> TRUE, block |-> cache]
    ELSE [cached |-> FALSE, block |-> GetBlockByHash(currentBlock.parentHash, found)]

\* Lines 123-130: the parent block of the event's block, from the cache if
\* the cache is set and has the parent hash, from the chain otherwise.
ParentBlock(cache, currentBlock, found) ==
    IF cache # NoBlock /\ cache.hash = currentBlock.parentHash
    THEN [cached |-> TRUE, block |-> cache]
    ELSE [cached |-> FALSE, block |-> GetBlockByHash(currentBlock.parentHash, found)]

\* Lines 116-138: one chain event taken from chainEventCh, up to the call of send.
\* p: the block's parent hash; found: whether GetBlockByHash has the parent.
Loop_ChainEvent(p, found, buildOk, accts, failing, auxOk) ==
    LET currentBlock == Block(nEvents + 1, p)
        sel == ParentBlock(lastBlock, currentBlock, found)
        cached == sel.cached
        parentBlock == sel.block
        r == processStateDiff(currentBlock, parentBlock, buildOk, accts, failing,
                              auxOk, StreamBlock)
        stateDiff == StateDiff(currentBlock.number, currentBlock.hash, accts)
        canonical == StateDiff(currentBlock.number, currentBlock.hash, <<>>)
        \* history: the event has a resolvable parent, builds and encodes, and
        \* its diff is not the canonical empty one
        good == /\ cached \/ found
                /\ buildOk /\ stateDiff \notin failing /\ (StreamBlock => auxOk)
                /\ RlpEncode(stateDiff) # RlpEncode(canonical)
        \* history: what failed in processStateDiff, if it was the builder
        \* ("build") or the encoding of the empty diff after everything else
        \* had succeeded ("check")
        fault == IF ~buildOk THEN "build"
                 ELSE IF /\ stateDiff \notin failing /\ (StreamBlock => auxOk)
                         /\ canonical \in failing
                      THEN "check"
                      ELSE "none"
        seen == [outcome |-> "skipped", registered |-> Registered # {}, good |-> good,
                 looked |-> FALSE, emptyDiff |-> FALSE, fault |-> "none",
                 parent |-> NoBlock]
    IN  /\ ~panicked
        /\ loopPC = "select"
        /\ nCalls + nEvents < MaxOps
        /\ nEvents' = nEvents + 1
        /\ IF subscribers = 0
           THEN /\ last' = seen
                /\ UNCHANGED <<lastBlock, loopPC, loopPayload>>
           ELSE /\ lastBlock' = currentBlock
                /\ IF parentBlock = NoBlock
                   THEN /\ last' = [seen EXCEPT !.outcome = "noparent", !.looked = ~cached]
                        /\ UNCHANGED <<loopPC, loopPayload>>
                   ELSE /\ last' = [seen EXCEPT
                                      !.outcome = IF r.err THEN "error"
                                                  ELSE IF r.send THEN "send" ELSE "empty",
                                      !.looked = ~cached,
                                      !.parent = parentBlock,
                                      !.fault = fault,
                                      !.emptyDiff =
                                          /\ buildOk /\ stateDiff \notin failing
                                          /\ RlpEncode(stateDiff) = RlpEncode(canonical)]
                        /\ IF r.send
                           THEN loopPC' = "send_lock" /\ loopPayload' = r.payload
                           ELSE UNCHANGED <<loopPC, loopPayload>>
        /\ UNCHANGED <<Subscriptions, subscribers, mutex, loopTodo, iter, payloadCh,
                       callerVars, lifeVars>>

----------------------------------------------------------------------------
(* send *)

\* Mutant of TrySend: the channel hands its newest element out first.
TrySend_Lifo(ready, log, v) ==
    IF ready THEN [ok |-> TRUE, log |-> <<v>> \o log]
             ELSE [ok |-> FALSE, log |-> log]

\* A non-blocking channel send (select with default). The channel is the
\* subscriber's: ready says whether it has a receiver waiting or room in its
\* buffer at this moment; log is what has been written to it so far.
TrySend(ready, log, v) ==
    IF ready THEN [ok |-> TRUE, log |-> Append(log, v)]
             ELSE [ok |-> FALSE, log |-> log]

\* The same on a quit channel.
TrySignal(ready) == [ok |-> ready]

\* Line 260: sds.Lock(), and the range statement starts.
send_Lock ==
    /\ ~panicked
    /\ loopPC = "send_lock"
    /\ ~mutex.locked
    /\ mutex' = HeldBy(LoopThread)
    /\ loopPC' = "send_range"
    /\ loopTodo' = Registered
    /\ iter' = [NoIter EXCEPT !.op = "send", !.start = Registered]
    /\ NoEvent
    /\ UNCHANGED <<Subscriptions, subscribers, lastBlock, loopPayload, nEvents,
                   payloadCh, callerVars, lifeVars>>

\* Mutant of send_Range: the entry is deleted only when the quit channel took
\* the signal.
send_Range_KeepUnsignalled(id, ready, quitReady) ==
    LET sub == Subscriptions[id]
        w == TrySend(ready, payloadCh[sub.PayloadChan], loopPayload)
        q == TrySignal(quitReady)
    IN  /\ ~panicked
        /\ loopPC = "send_range"
        /\ id \in loopTodo
        /\ loopTodo' = loopTodo \ {id}
        /\ IF w.ok
           THEN /\ payloadCh' = [payloadCh EXCEPT ![sub.PayloadChan] = w.log]
                /\ iter' = [iter EXCEPT !.tried[id] = @ + 1, !.sent[id] = @ + 1]
                /\ UNCHANGED Subscriptions
           ELSE /\ Subscriptions' = IF q.ok THEN Delete(Subscriptions, id) ELSE Subscriptions
                /\ iter' = [iter EXCEPT !.tried[id] = @ + 1,
                                        !.full = @ \cup {id},
                                        !.signalled = IF q.ok THEN @ \cup {id} ELSE @]
                /\ UNCHANGED payloadCh
        /\ NoEvent
        /\ UNCHANGED <<subscribers, mutex, lastBlock, loopPC, loopPayload, nEvents,
                       callerVars, lifeVars>>

\* Mutant of send_Range: the range is abandoned at the first full sink.
send_Range_StopAtFull(id, ready, quitReady) ==
    LET sub == Subscriptions[id]
        w == TrySend(ready, payloadCh[sub.PayloadChan], loopPayload)
        q == TrySignal(quitReady)
    IN  /\ ~panicked
        /\ loopPC = "send_range"
        /\ id \in loopTodo
        /\ IF w.ok
           THEN /\ payloadCh' = [payloadCh EXCEPT ![sub.PayloadChan] = w.log]
                /\ loopTodo' = loopTodo \ {id}
                /\ iter' = [iter EXCEPT !.tried[id] = @ + 1, !.sent[id] = @ + 1]
                /\ UNCHANGED Subscriptions
           ELSE /\ Subscriptions' = Delete(Subscriptions, id)
                /\ loopTodo' = {}
                /\ iter' = [iter EXCEPT !.tried[id] = @ + 1,
                                        !.full = @ \cup {id},
                                        !.signalled = IF q.ok THEN @ \cup {id} ELSE @]
                /\ UNCHANGED payloadCh
        /\ NoEvent
        /\ UNCHANGED <<subscribers, mutex, lastBlock, loopPC, loopPayload, nEvents,
                       callerVars, lifeVars>>

\* Lines 261-276: one iteration of the range, for entry id.
send_Range(id, ready, quitReady) ==
    LET sub == Subscriptions[id]
        w == TrySend(ready, payloadCh[sub.PayloadChan], loopPayload)
        q == TrySignal(quitReady)
    IN  /\ ~panicked
        /\ loopPC = "send_range"
        /\ id \in loopTodo
        /\ loopTodo' = loopTodo \ {id}
        /\ IF w.ok
           THEN /\ payloadCh' = [payloadCh EXCEPT ![sub.PayloadChan] = w.log]
                /\ iter' = [iter EXCEPT !.tried[id] = @ + 1, !.sent[id] = @ + 1]
                /\ UNCHANGED Subscriptions
           ELSE /\ Subscriptions' = Delete(Subscriptions, id)
                /\ iter' = [iter EXCEPT !.tried[id] = @ + 1,
                                        !.full = @ \cup {id},
                                        !.signalled = IF q.ok THEN @ \cup {id} ELSE @]
                /\ UNCHANGED payloadCh
        /\ NoEvent
        /\ UNCHANGED <<subscribers, mutex, lastBlock, loopPC, loopPayload, nEvents,
                       callerVars, lifeVars>>

\* Lines 277-283: clear the flag if the registry is empty, Unlock, return to the select.
send_Unlock ==
    /\ ~panicked
    /\ loopPC = "send_range"
    /\ loopTodo = {}
    /\ subscribers' = HaltIfEmpty(Subscriptions, subscribers)
    /\ mutex' = Free
    /\ loopPC' = "select"
    /\ loopPayload' = NoPayload
    /\ iter' = NoIter
    /\ NoEvent
    /\ UNCHANGED <<Subscriptions, lastBlock, loopTodo, nEvents, payloadCh, callerVars,
                   lifeVars>>

----------------------------------------------------------------------------
(* Loop: the error and quit cases, and close *)

\* Lines 139-141: the chain event subscription reports an error.
Loop_Err ==
    /\ ~panicked
    /\ loopPC = "select"
    /\ loopPC' = "close_lock"
    /\ NoEvent
    /\ UNCHANGED <<Subscriptions, subscribers, mutex, lastBlock, loopPayload, loopTodo,
                   nEvents, iter, payloadCh, callerVars, lifeVars>>

\* Lines 143-145: a receive from the closed QuitChan.
Loop_Quit ==
    /\ ~panicked
    /\ loopPC = "select"
    /\ quitClosed
    /\ loopPC' = "close_lock"
    /\ NoEvent
    /\ UNCHANGED <<Subscriptions, subscribers, mutex, lastBlock, loopPayload, loopTodo,
                   nEvents, iter, payloadCh, callerVars, lifeVars>>

\* Line 288: sds.Lock(), and the range statement starts.
close_Lock ==
    /\ ~panicked
    /\ loopPC = "close_lock"
    /\ ~mutex.locked
    /\ mutex' = HeldBy(LoopThread)
    /\ loopPC' = "close_range"
    /\ loopTodo' = Registered
    /\ iter' = [NoIter EXCEPT !.op = "close", !.start = Registered]
    /\ NoEvent
    /\ UNCHANGED <<Subscriptions, subscribers, lastBlock, loopPayload, nEvents,
                   payloadCh, callerVars, lifeVars>>

\* Mutant of close_Range: the entry is deleted only when the quit channel took
\* the signal.
close_Range_KeepUnsignalled(id, quitReady) ==
    LET q == TrySignal(quitReady)
    IN  /\ ~panicked
        /\ loopPC = "close_range"
        /\ id \in loopTodo
        /\ loopTodo' = loopTodo \ {id}
        /\ Subscriptions' = IF q.ok THEN Delete(Subscriptions, id) ELSE Subscriptions
        /\ iter' = [iter EXCEPT !.tried[id] = @ + 1,
                                !.signalled = IF q.ok THEN @ \cup {id} ELSE @]
        /\ NoEvent
        /\ UNCHANGED <<subscribers, mutex, lastBlock, loopPC, loopPayload, nEvents,
                       payloadCh, callerVars, lifeVars>>

\* Lines 289-297: one iteration of the range, for entry id.
close_Range(id, quitReady) ==
    LET q == TrySignal(quitReady)
    IN  /\ ~panicked
        /\ loopPC = "close_range"
        /\ id \in loopTodo
        /\ loopTodo' = loopTodo \ {id}
        /\ Subscriptions' = Delete(Subscriptions, id)
        /\ iter' = [iter EXCEPT !.tried[id] = @ + 1,
                                !.signalled = IF q.ok THEN @ \cup {id} ELSE @]
        /\ NoEvent
        /\ UNCHANGED <<subscribers, mutex, lastBlock, loopPC, loopPayload, nEvents,
                       payloadCh, callerVars, lifeVars>>

\* Line 298 and the return from Loop: Unlock; the subscribers flag is not touched.
close_Unlock ==
    /\ ~panicked
    /\ loopPC = "close_range"
    /\ loopTodo = {}
    /\ mutex' = Free
    /\ loopPC' = "stopped"
    /\ iter' = NoIter
    /\ NoEvent
    /\ UNCHANGED <<Subscriptions, subscribers, lastBlock, loopPayload, loopTodo, nEvents,
                   payloadCh, callerVars, lifeVars>>

----------------------------------------------------------------------------
Next ==
    \/ \E c \in Callers, id \in Ids, g \in Gens : Subscribe_CAS(c, id, g)
    \/ \E c \in Callers : Subscribe_Insert(c)
    \/ \E c \in Callers, id \in Ids : Unsubscribe_Lock(c, id)
    \/ \E c \in Callers : Unsubscribe_Unlock(c)
    \/ Start
    \/ Stop
    \* the event's inputs, each drawn only where the code can come to read it:
    \* the chain is asked for the parent on a cache miss, the builder's result
    \* is encoded when the build succeeded, and the encoder is consulted again
    \* for the empty diff when the block and the receipts encoded
    \/ \E p \in ParentHashes(nEvents + 1), buildOk \in BOOLEAN :
          \E found \in (IF lastBlock.hash = p THEN {TRUE} ELSE BOOLEAN),
             accts \in (IF buildOk THEN AccountDeltas ELSE {<<>>}),
             auxOk \in (IF buildOk /\ StreamBlock THEN BOOLEAN ELSE {TRUE}) :
             \E failing \in (IF buildOk /\ auxOk
                             THEN SUBSET {StateDiff(nEvents + 1, nEvents + 1, accts),
                                          StateDiff(nEvents + 1, nEvents + 1, <<>>)}
                             ELSE {{}}) :
                Loop_ChainEvent(p, found, buildOk, accts, failing, auxOk)
    \/ send_Lock
    \/ \E id \in Ids, ready \in BOOLEAN, quitReady \in BOOLEAN :
          send_Range(id, ready, quitReady)
    \/ send_Unlock
    \/ Loop_Err
    \/ Loop_Quit
    \/ close_Lock
    \/ \E id \in Ids, quitReady \in BOOLEAN : close_Range(id, quitReady)
    \/ close_Unlock

Spec == Init /\ [][Next]_vars

\* Scheduling. A goroutine that can run is run: the steps that wait for
\* nothing are weakly fair. A goroutine blocked in Lock gets the mutex when it
\* is released often enough (sync.Mutex hands the lock to a starving waiter),
\* and a select whose quit case is ready again and again takes it in the end
\* (the choice among ready cases is uniformly random): those are strongly fair.
FairSpec ==
    /\ Spec
    /\ \A c \in Callers : SF_vars(Subscribe_Insert(c)) /\ WF_vars(Unsubscribe_Unlock(c))
    /\ SF_vars(Loop_Quit)
    /\ SF_vars(send_Lock) /\ SF_vars(close_Lock)
    /\ WF_vars(\E id \in Ids, ready \in BOOLEAN, quitReady \in BOOLEAN :
                  send_Range(id, ready, quitReady))
    /\ WF_vars(send_Unlock)
    /\ WF_vars(\E id \in Ids, quitReady \in BOOLEAN : close_Range(id, quitReady))
    /\ WF_vars(close_Unlock)

----------------------------------------------------------------------------
(* Properties *)

\* No Subscribe or Unsubscribe call and no send is in progress.
Quiescent ==
    /\ \A c \in Callers : callerPC[c] = "idle"
    /\ loopPC \in {"notstarted", "select"}

\* C1: whenever no Subscribe, Unsubscribe or send is in progress, the
\* subscribers flag is 1 if and only if the registry is non-empty.
C1_GateMatchesRegistry ==
    Quiescent => (subscribers = 1 <=> Registered # {})

\* C2: an Unsubscribe of an id that is not registered returns the not-found
\* error and changes neither the registry nor the flag; an Unsubscribe of a
\* registered id removes that entry and no other, and returns nil.
C2_UnsubscribeResult ==
    [][\A c \in Callers :
        /\ (callerPC[c] = "idle" /\ ~mutex.locked /\ mutex'.locked /\ mutex'.owner = c) =>
              IF callerArg'[c][1] \notin Registered
              THEN /\ callerPC'[c] = "idle"
                   /\ callerRet'[c] = "notfound"
                   /\ Subscriptions' = Subscriptions
                   /\ subscribers' = subscribers
              ELSE /\ DOMAIN Subscriptions' = Registered \ {callerArg'[c][1]}
                   /\ \A i \in DOMAIN Subscriptions' : Subscriptions'[i] = Subscriptions[i]
                   /\ callerRet'[c] = "nil"
        /\ (callerPC[c] = "unsub_cas" /\ callerPC'[c] # "unsub_cas" /\ ~panicked') =>
              /\ callerPC'[c] = "idle"
              /\ callerRet'[c] = "nil"
              /\ Subscriptions' = Subscriptions
      ]_vars

\* An Unsubscribe of an absent id has returned not-found while another
\* subscriber is registered.
C2_Witness ==
    \E c \in Callers : callerPC[c] = "idle" /\ callerRet[c] = "notfound" /\ Registered # {}

\* C3: the registry lock is held only by a goroutine that is inside send,
\* close or Unsubscribe and will release it: a call that has returned has
\* released the lock.
C3_LockReleased ==
    mutex.locked =>
        \/ mutex.owner = LoopThread /\ loopPC \in {"send_range", "close_range"}
        \/ mutex.owner \in Callers /\ callerPC[mutex.owner] = "unsub_cas"

\* C4: a chain event taken while the registry is empty is discarded at the
\* gate: no block lookup is made and the builder is not invoked.
C4_ZeroWork ==
    (last.outcome # "none" /\ ~last.registered) =>
        (last.outcome = "skipped" /\ ~last.looked)

\* The block identity a diff encoding carries, as a diff without account deltas.
CanonicalEmptyOf(rlp) == RlpEncode(StateDiff(rlp[2], rlp[3], <<>>))

\* C5: an event whose encoded diff equals the canonical empty-diff encoding
\* of its block is not sent: the loop goes back to its select with the
\* registry, the flag and every sink as they were, and no sink ever holds a
\* payload whose diff is the canonical empty one.
C5_EmptyDiffSuppressed ==
    [][/\ (nEvents' = nEvents + 1 /\ last'.emptyDiff) =>
            /\ last'.outcome \in {"empty", "error"}
            /\ loopPC' = "select"
            /\ UNCHANGED <<Subscriptions, subscribers, payloadCh, loopPayload>>
       /\ \A ch \in Chans : \A i \in 1..Len(payloadCh'[ch]) :
            payloadCh'[ch][i].StateDiffRlp # CanonicalEmptyOf(payloadCh'[ch][i].StateDiffRlp)
      ]_vars

\* An empty diff was built and suppressed while a subscriber was registered.
C5_Witness ==
    /\ last.outcome = "empty"
    /\ last.emptyDiff
    /\ Registered # {}

\* The range of the running send (or close) has produced every entry.
SendDone == loopPC = "send_range" /\ loopTodo = {}
CloseDone == loopPC = "close_range" /\ loopTodo = {}

\* C6: a subscriber whose payload sink is full when send attempts it is out
\* of the registry when that iteration ends, whether or not its quit channel
\* took the signal, and gets nothing from that send; a payload is written
\* only to the sink of a registered subscriber, and only Subscribe puts an
\* id into the registry.
C6_FullSinkEvicted ==
    [][~panicked' =>
        /\ loopPC = "send_range" =>
                \A id \in iter'.full \ iter.full :
                    id \in Registered /\ id \notin DOMAIN Subscriptions' /\ payloadCh' = payloadCh
        /\ loopPC' = "send_range" =>
                \A id \in iter'.full : id \notin DOMAIN Subscriptions' /\ iter'.sent[id] = 0
        /\ \A ch \in Chans :
            payloadCh'[ch] # payloadCh[ch] =>
                /\ loopPC = "send_range"
                /\ \E id \in Registered : Subscriptions[id].PayloadChan = ch
        /\ \A id \in (DOMAIN Subscriptions') \ Registered :
            \E c \in Callers : /\ callerPC[c] = "sub_lock" /\ callerPC'[c] = "idle"
                               /\ callerArg[c][1] = id
      ]_vars

\* send has evicted a subscriber whose quit channel did not take the signal.
C6_Witness ==
    SendDone /\ \E id \in iter.full : id \notin iter.signalled /\ id \notin Registered

\* C7: when the range of send ends, every subscriber registered when send
\* took the lock has been attempted exactly once and no other has been; each
\* one whose sink had room got the payload exactly once and is still
\* registered, however many others were evicted.
C7_EachAttemptedOnce ==
    SendDone =>
        \A id \in Ids :
            /\ iter.tried[id] = (IF id \in iter.start THEN 1 ELSE 0)
            /\ id \in iter.start \ iter.full => iter.sent[id] = 1 /\ id \in Registered
            /\ id \notin iter.start \ iter.full => iter.sent[id] = 0

\* A send has delivered to one subscriber and evicted another.
C7_Witness ==
    SendDone /\ \E a, b \in iter.start : a \in iter.full /\ iter.sent[b] = 1

\* C8: an event with a resolvable parent, a successful build and a non-empty
\* diff, taken while some subscriber's Subscribe has returned and it is
\* still registered, is sent; and the send writes the payload once to every
\* subscriber it finds registered with room in its sink.
C8_Delivered ==
    /\ (last.outcome # "none" /\ last.good /\ last.registered) => last.outcome = "send"
    /\ SendDone => \A id \in iter.start \ iter.full : iter.sent[id] = 1

\* C9: when the range of close ends the registry is empty, and every
\* subscriber registered when close took the lock has been signalled
\* (non-blocking) exactly once and no other has been.
C9_CloseSignalsAll ==
    CloseDone =>
        /\ Registered = {}
        /\ \A id \in Ids : iter.tried[id] = (IF id \in iter.start THEN 1 ELSE 0)

\* close has removed a subscriber whose quit channel did not take the signal.
C9_Witness ==
    CloseDone /\ \E id \in iter.start : id \notin iter.signalled

\* C10: Stop never panics, whatever the number of calls.
C10_StopIdempotent == ~panicked

\* The number of the chain event a payload was built for (the block number
\* its diff encoding carries).
EventOf(payload) == payload.StateDiffRlp[2]

\* C11: the payloads written to a subscriber's sink are for strictly
\* increasing chain events (a subsequence of the feed), and the loop takes
\* the next event only from its select: the send of the event before has
\* returned and the loop holds neither the lock nor a payload.
C11_FeedOrder ==
    [][~panicked' =>
        /\ \A ch \in Chans : \A i, j \in 1..Len(payloadCh'[ch]) :
              i < j => EventOf(payloadCh'[ch][i]) < EventOf(payloadCh'[ch][j])
        /\ nEvents' # nEvents =>
              /\ nEvents' = nEvents + 1
              /\ loopPC = "select"
              /\ loopPayload = NoPayload
              /\ loopTodo = {}
              /\ ~(mutex.locked /\ mutex.owner = LoopThread)
      ]_vars

\* One subscriber's sink has been written two payloads.
C11_Witness ==
    \E ch \in Chans : Len(payloadCh[ch]) = 2 /\ ~panicked

\* C12: once Stop has been called on a started loop, or the loop has taken
\* the event source's error, the loop runs close and reaches Stopped; once
\* Stopped it takes no further event, sends nothing and stays Stopped.
C12_ShutdownCompletes ==
    /\ (quitClosed /\ loopPC # "notstarted") ~> (loopPC = "stopped")
    /\ (loopPC = "close_lock") ~> (loopPC = "stopped")
    /\ [][(loopPC = "stopped" /\ ~panicked') =>
            /\ loopPC' = "stopped"
            /\ UNCHANGED <<nEvents, payloadCh, loopPayload, lastBlock>>
         ]_vars

\* C13: a payload is written to a sink only while the loop is inside the
\* send of the event it took last, it is that event's payload, and the sink
\* is the one of a subscriber in the registry at that moment; between events
\* the loop keeps no payload. So no subscriber gets the payload of an event
\* whose handling had finished before its Subscribe call started.
C13_NoReplay ==
    [][~panicked' =>
        /\ \A ch \in Chans :
              payloadCh'[ch] # payloadCh[ch] =>
                  /\ loopPC = "send_range"
                  /\ payloadCh'[ch] = Append(payloadCh[ch], loopPayload)
                  /\ EventOf(loopPayload) = nEvents
                  /\ \E id \in Registered : Subscriptions[id].PayloadChan = ch
        /\ loopPC' \notin {"send_lock", "send_range"} => loopPayload' = NoPayload
      ]_vars

\* The first payload a subscriber got is the one of the second event: the
\* first event had been handled before it subscribed.
C13_Witness ==
    \E ch \in Chans : payloadCh[ch] # <<>> /\ EventOf(payloadCh[ch][1]) = 2

\* C14: the insert of Subscribe(id, p2, q2) leaves the registry with the ids
\* it had plus id, id mapped to (p2, q2) and every other entry as it was (so
\* sends, which write to the registry's entries, no longer reach p1); and a
\* Subscribe call that repeats the entry the registry already holds for id
\* changes neither the registry nor the flag.
C14_SubscribeOverwrites ==
    [][\A c \in Callers :
        /\ (callerPC[c] = "sub_lock" /\ callerPC'[c] = "idle" /\ ~panicked') =>
              /\ DOMAIN Subscriptions' = Registered \cup {callerArg[c][1]}
              /\ Subscriptions'[callerArg[c][1]] = Subscription(callerArg[c])
              /\ \A i \in Registered \ {callerArg[c][1]} : Subscriptions'[i] = Subscriptions[i]
        /\ (callerPC[c] = "idle" /\ callerPC'[c] = "sub_lock"
              /\ callerArg'[c][1] \in Registered
              /\ Subscriptions[callerArg'[c][1]] = Subscription(callerArg'[c])) =>
              /\ subscribers' = subscribers
              /\ Subscriptions' = Subscriptions
      ]_vars

\* C15: when close returns, the registry is empty and the subscribers flag
\* is 0.
C15_CloseClearsGate ==
    [][(loopPC = "close_range" /\ loopPC' = "stopped" /\ ~panicked') =>
            /\ Subscriptions' = EmptyMap
            /\ subscribers' = 0
      ]_vars

\* C16: every compare-and-swap of the subscribers flag is made by the
\* goroutine that holds the mutex: the one at the start of Subscribe, and any
\* step that changes the flag.
C16_GateUpdatedUnderLock ==
    [][~panicked' =>
        /\ \A c \in Callers :
              (callerPC[c] = "idle" /\ callerPC'[c] = "sub_lock") =>
                  (mutex.locked /\ mutex.owner = c)
        /\ subscribers' # subscribers =>
              /\ mutex.locked
              /\ mutex.owner = LoopThread => loopPC = "send_range"
              /\ mutex.owner \in Callers =>
                    (callerPC[mutex.owner] = "unsub_cas" /\ callerPC'[mutex.owner] = "idle")
      ]_vars

\* C17: an event whose parent block cannot be resolved, or whose build
\* fails, ends with the loop back at its select: nothing is sent for it, no
\* sink is written, the registry, the flag and the mutex are as they were.
\* It is not retried: the loop starts a send only in the step that takes an
\* event, and for that event.
C17_EventFailureNonFatal ==
    [][~panicked' =>
        /\ (nEvents' = nEvents + 1
              /\ (last'.outcome = "noparent" \/ last'.fault = "build")) =>
              /\ last'.outcome \in {"noparent", "error"}
              /\ loopPC' = "select"
              /\ loopPayload' = NoPayload
              /\ UNCHANGED <<Subscriptions, subscribers, mutex, payloadCh>>
        /\ (loopPC # "send_lock" /\ loopPC' = "send_lock") =>
              /\ nEvents' = nEvents + 1
              /\ last'.outcome = "send"
              /\ EventOf(loopPayload') = nEvents'
      ]_vars

\* The build of an event failed while a subscriber that had been delivered
\* an earlier event was registered.
C17_Witness ==
    /\ last.fault = "build"
    /\ last.outcome = "error"
    /\ loopPC = "select"
    /\ \E id \in Registered : payloadCh[Subscriptions[id].PayloadChan] # <<>>

\* C18: an event for which the encoding of the canonical empty diff fails
\* (so the empty-diff check returns an error) is dropped: it is not sent.
C18_CheckFailureDrops ==
    last.fault = "check" => (last.outcome # "send" /\ loopPC = "select")

\* C19: after any chain event the loop has taken, whatever became of it,
\* the last-block cache holds that event's block.
C19_CacheAlwaysUpdated ==
    last.outcome # "none" => (lastBlock.number = nEvents /\ lastBlock.hash = nEvents)

\* C20: for an event that passes the gate, the parent block is the cached
\* block exactly when the cache is set and its hash is the event block's
\* parent hash (and then the chain is not asked), and otherwise what
\* GetBlockByHash gives for the parent hash, a block or none; the cache is
\* the event's block afterwards, also when there is no parent.
C20_ParentFromCacheOrChain ==
    [][(nEvents' = nEvents + 1 /\ last'.outcome # "skipped" /\ ~panicked') =>
        /\ lastBlock'.number = nEvents' /\ lastBlock'.hash = nEvents'
        /\ IF lastBlock # NoBlock /\ lastBlock.hash = lastBlock'.parentHash
           THEN last'.parent = lastBlock /\ ~last'.looked
           ELSE /\ last'.looked
                /\ \E found \in BOOLEAN :
                      last'.parent = GetBlockByHash(lastBlock'.parentHash, found)
        /\ last'.outcome = "noparent" <=> last'.parent = NoBlock
      ]_vars

\* The second event's parent was taken from the cache, which held the first
\* event's block.
C20_Witness ==
    /\ nEvents = 2
    /\ last.outcome \notin {"none", "skipped"}
    /\ ~last.looked
    /\ last.parent.hash = 1
    /\ lastBlock.hash = 2

====
